---- MODULE Spec2Model ----
(***************************************************************************)
(* Model of the WATA payment extension: the webhook handler                *)
(* (backend/wata-webhook/index.py: public-key cache, signature check,      *)
(* order status transition) and the order intake handler                   *)
(* (backend/wata/index.py), both working on one relational order store.   *)
(***************************************************************************)
EXTENDS Integers, Sequences, FiniteSets, TLC

VARIABLES
    publicKeyCache, \* _public_key_cache of the webhook process
    providerKey,    \* the key the provider's /public-key endpoint serves now
    keyCalls,       \* GET /public-key requests answered so far
    keyLoads,       \* of those, the ones that stored a value in the cache
    orders,         \* committed rows of table orders
    items,          \* committed rows of table order_items
    nextId,         \* next value of the orders.id sequence
    clock,          \* store time: number of transactions begun
    wh,             \* webhook invocations: position and locals of each
    delivered,      \* webhook invocations begun
    ik,             \* intake invocations: position and locals of each
    intakes         \* intake invocations begun

vars == <<publicKeyCache, providerKey, keyCalls, keyLoads, orders, items,
          nextId, clock, wh, delivered, ik, intakes>>

keyVars == <<publicKeyCache, providerKey, keyCalls, keyLoads>>
storeVars == <<orders, items, nextId, clock>>
intakeVars == <<ik, intakes>>

(***************************************************************************)
(* Bounds of the model.                                                    *)
(***************************************************************************)
MaxDeliveries == 4  \* webhook invocations in one run
MaxIntakes == 2     \* intake invocations in one run
NumIds == 2         \* size of the range random.randint draws from

(***************************************************************************)
(* Text.  A string the code converts is a sequence of characters.  An      *)
(* ASCII character is written as itself, except the quotation mark         *)
(* ("U+0022"), the apostrophe ("U+0027"), the backslash ("U+005C"), the    *)
(* grave accent ("U+0060") and the vertical tab ("U+000B"); a character    *)
(* outside ASCII is written as its code point ("U+0131").  The             *)
(* conversions are defined on the characters of Alphabet.                  *)
(***************************************************************************)
UpperCase == <<"A","B","C","D","E","F","G","H","I","J","K","L","M",
               "N","O","P","Q","R","S","T","U","V","W","X","Y","Z">>
LowerCase == <<"a","b","c","d","e","f","g","h","i","j","k","l","m",
               "n","o","p","q","r","s","t","u","v","w","x","y","z">>
Digits == <<"0","1","2","3","4","5","6","7","8","9">>
\* decimal digits outside ASCII: ARABIC-INDIC DIGIT ZERO.. and FULLWIDTH DIGIT ZERO..
ArabicIndicDigits == <<"U+0660","U+0661","U+0662","U+0663","U+0664",
                       "U+0665","U+0666","U+0667","U+0668","U+0669">>
FullWidthDigits == <<"U+FF10","U+FF11","U+FF12","U+FF13","U+FF14",
                     "U+FF15","U+FF16","U+FF17","U+FF18","U+FF19">>

IndexIn(c, table) == CHOOSE i \in DOMAIN table : table[i] = c
Occurs(c, table) == \E i \in DOMAIN table : table[i] = c
Range(table) == {table[i] : i \in DOMAIN table}
DigitChars == Range(Digits)

\* the white space int() and float() strip: space, \t, \n, \r, \f, \v, and
\* outside ASCII NO-BREAK SPACE and IDEOGRAPHIC SPACE
AsciiSpace == {" ", "\t", "\n", "\r", "\f", "U+000B"}
UnicodeSpace == {"U+00A0", "U+3000"}
Punctuation ==
    {"!", "U+0022", "#", "$", "%", "&", "U+0027", "(", ")", "*", "+", ",", "-", ".",
     "/", ":", ";", "<", "=", ">", "?", "@", "[", "U+005C", "]", "^", "_", "U+0060",
     "{", "|", "}", "~"}

\* str.upper() of the characters outside ASCII that have an upper-case form:
\* sharp s, e acute, dotless i, long s, final sigma, sigma, ya, ligature st
UpperTable ==
    <<<<"U+00DF", <<"S", "S">>>>, <<"U+00E9", <<"U+00C9">>>>,
      <<"U+0131", <<"I">>>>, <<"U+017F", <<"S">>>>,
      <<"U+03C2", <<"U+03A3">>>>, <<"U+03C3", <<"U+03A3">>>>,
      <<"U+044F", <<"U+042F">>>>, <<"U+FB06", <<"S", "T">>>>>>
\* str.lower() of the characters outside ASCII that have a lower-case form:
\* E acute, I with dot above, capital ya, Kelvin sign; capital sigma is
\* lowered by its position (LowerAt)
LowerTable ==
    <<<<"U+00C9", <<"U+00E9">>>>, <<"U+0130", <<"i", "U+0307">>>>,
      <<"U+042F", <<"U+044F">>>>, <<"U+212A", <<"k">>>>>>

NonAscii ==
    {"U+00DF", "U+00E9", "U+0131", "U+017F", "U+03C2", "U+03C3", "U+044F",
     "U+FB06", "U+00C9", "U+0130", "U+042F", "U+212A", "U+03A3", "U+0307"}
    \cup Range(ArabicIndicDigits) \cup Range(FullWidthDigits) \cup UnicodeSpace
Alphabet ==
    Range(UpperCase) \cup Range(LowerCase) \cup Range(Digits) \cup AsciiSpace
    \cup Punctuation \cup NonAscii

\* the characters str.upper(), str.lower() and the conversion to ASCII leave
\* as they are
UpperFixed ==
    Alphabet \ (Range(LowerCase) \cup {UpperTable[i][1] : i \in DOMAIN UpperTable})
LowerFixed ==
    Alphabet \ (Range(UpperCase) \cup {LowerTable[i][1] : i \in DOMAIN LowerTable}
                    \cup {"U+03A3"})
AsciiChars == Alphabet \ NonAscii

\* characters with a case, and characters the final-sigma rule skips
Cased ==
    Range(UpperCase) \cup Range(LowerCase)
    \cup {"U+00DF", "U+00E9", "U+0131", "U+017F", "U+03C2", "U+03C3", "U+044F",
          "U+FB06", "U+00C9", "U+0130", "U+042F", "U+212A", "U+03A3"}
\* the last is COMBINING DOT ABOVE, the second character of lower-cased U+0130
CaseIgnorable == {"U+0027", ".", ":", "^", "U+0060", "U+0307"}

RECURSIVE Flatten(_)
Flatten(ss) ==
    IF Len(ss) = 0 THEN <<>>
    ELSE IF Len(ss) = 1 THEN ss[1]
    ELSE LET h == Len(ss) \div 2
         IN Flatten(SubSeq(ss, 1, h)) \o Flatten(SubSeq(ss, h + 1, Len(ss)))

\* the characters one character becomes under str.upper()
UpperChar(c) ==
    CASE c \in UpperFixed -> <<c>>
      [] Occurs(c, LowerCase) -> <<UpperCase[IndexIn(c, LowerCase)]>>
      [] \E i \in DOMAIN UpperTable : UpperTable[i][1] = c ->
            UpperTable[CHOOSE i \in DOMAIN UpperTable : UpperTable[i][1] = c][2]
\* the characters one character other than capital sigma becomes under str.lower()
LowerChar(c) ==
    CASE c \in LowerFixed -> <<c>>
      [] Occurs(c, UpperCase) -> <<LowerCase[IndexIn(c, UpperCase)]>>
      [] \E i \in DOMAIN LowerTable : LowerTable[i][1] = c ->
            LowerTable[CHOOSE i \in DOMAIN LowerTable : LowerTable[i][1] = c][2]

\* capital sigma (U+03A3) at position i ends a word: a cased character stands before
\* it, skipping case-ignorable ones, and none stands after it
FinalSigma(s, i) ==
    /\ \E j \in 1 .. (i - 1) :
         s[j] \in Cased /\ \A k \in (j + 1) .. (i - 1) : s[k] \in CaseIgnorable
    /\ ~\E j \in (i + 1) .. Len(s) :
         s[j] \in Cased /\ \A k \in (i + 1) .. (j - 1) : s[k] \in CaseIgnorable
LowerAt(s, i) ==
    IF s[i] = "U+03A3"
    THEN (IF FinalSigma(s, i) THEN <<"U+03C2">> ELSE <<"U+03C3">>)
    ELSE LowerChar(s[i])

\* str.lower() and str.upper()
Lower(s) == Flatten([i \in DOMAIN s |-> LowerAt(s, i)])
Upper(s) == Flatten([i \in DOMAIN s |-> UpperChar(s[i])])

\* a string of ASCII digits, as str() of a number that is not negative gives
IsDigits(s) == Len(s) > 0 /\ \A i \in DOMAIN s : s[i] \in DigitChars
\* the least of a set of positions
FirstOf(S) == CHOOSE i \in S : \A k \in S : i <= k
\* the digits from the first that is not 0
DropZeros(d) ==
    LET nz == {i \in DOMAIN d : d[i] # "0"}
    IN IF nz = {} THEN <<>> ELSE SubSeq(d, FirstOf(nz), Len(d))
\* the number a string of ASCII digits writes
RECURSIVE IntOf(_)
IntOf(s) == IF Len(s) = 0 THEN 0
            ELSE 10 * IntOf(SubSeq(s, 1, Len(s) - 1)) + (IndexIn(s[Len(s)], Digits) - 1)

\* str(n) of an integer that is not negative, as in str(wata_order_id)
\* (wata/index.py:115) and the f-string of line 93
RECURSIVE StrOf(_)
StrOf(n) == IF n < 10 THEN <<Digits[n + 1]>>
            ELSE StrOf(n \div 10) \o <<Digits[(n % 10) + 1]>>

\* int() and float() of a string first turn every decimal digit into its
\* ASCII digit and white space outside ASCII into a space; another
\* character outside ASCII becomes "?", which no number contains
ToAscii(c) ==
    CASE c \in AsciiChars -> c
      [] Occurs(c, ArabicIndicDigits) -> Digits[IndexIn(c, ArabicIndicDigits)]
      [] Occurs(c, FullWidthDigits) -> Digits[IndexIn(c, FullWidthDigits)]
      [] c \in UnicodeSpace -> " "
      [] c \in NonAscii \ (Range(ArabicIndicDigits) \cup Range(FullWidthDigits)
                            \cup UnicodeSpace) -> "?"
Ascii(s) == [i \in DOMAIN s |-> ToAscii(s[i])]

\* leading and trailing white space removed
Strip(s) ==
    LET ink == {i \in DOMAIN s : s[i] \notin AsciiSpace}
    IN IF ink = {} THEN <<>>
       ELSE SubSeq(s, FirstOf(ink),
                   CHOOSE i \in ink : \A k \in (i + 1) .. Len(s) : s[k] \in AsciiSpace)

\* the text without its sign
Unsigned(s) == IF Len(s) > 0 /\ s[1] \in {"+", "-"} THEN Tail(s) ELSE s
\* an underscore is allowed only between two digits
UnderscoresOk(s) ==
    \A i \in DOMAIN s :
        s[i] = "_" => /\ i > 1 /\ i < Len(s)
                       /\ s[i - 1] \in DigitChars /\ s[i + 1] \in DigitChars
NoUnderscores(s) == SelectSeq(s, LAMBDA c : c # "_")

\* sys.int_info.default_max_str_digits: int() of a text with more digits
\* raises ValueError (CPython 3.11)
MAX_STR_DIGITS == 4300
\* int(text) returns: optional sign, then digits with single underscores
\* between them, white space around allowed, and no more than
\* MAX_STR_DIGITS digits, leading zeros counted; otherwise ValueError
IntTextParses(s) ==
    LET u == Unsigned(Strip(Ascii(s)))
    IN /\ Len(u) > 0
       /\ \A i \in DOMAIN u : u[i] \in DigitChars \/ u[i] = "_"
       /\ UnderscoresOk(u)
       /\ Len(NoUnderscores(u)) <= MAX_STR_DIGITS
IntTextValue(s) ==
    LET t == Strip(Ascii(s))
        n == IntOf(DropZeros(NoUnderscores(Unsigned(t))))
    IN IF t[1] = "-" THEN 0 - n ELSE n

\* JSON values as json.loads gives them: a key that is absent, null, true or
\* false, an integer, a string. An integer of more than nine digits is
\* written BigNum, by its sign and its decimal digits, the first not 0; it
\* stands for an amount or a name only
Missing == [t |-> "missing"]
Null == [t |-> "null"]
Bool(b) == [t |-> "bool", v |-> b]
Num(n) == [t |-> "num", v |-> n]
Str(s) == [t |-> "str", v |-> s]
BigNum(neg, digits) == [t |-> "bignum", neg |-> neg, digits |-> digits]
\* Python truth of a JSON value: None, False, 0 and "" are false
Truthy(j) ==
    CASE j.t \in {"missing", "null"} -> FALSE
      [] j.t = "bool" -> j.v
      [] j.t = "num" -> j.v # 0
      [] j.t = "bignum" -> TRUE
      [] j.t = "str" -> Len(j.v) > 0

\* int(order_id_str) of a true value returns (line 193)
IntParses(j) ==
    CASE j.t = "bool" -> TRUE
      [] j.t = "num" -> TRUE
      [] j.t = "str" -> IntTextParses(j.v)
      [] j.t \in {"missing", "null"} -> FALSE
IntValue(j) ==
    CASE j.t = "bool" -> (IF j.v THEN 1 ELSE 0)
      [] j.t = "num" -> j.v
      [] j.t = "str" -> IntTextValue(j.v)

\* str(value): None for null, True / False, the decimal digits of an integer
PyStr(j) ==
    CASE j.t = "null" -> <<"N", "o", "n", "e">>
      [] j.t = "bool" -> (IF j.v THEN <<"T", "r", "u", "e">>
                          ELSE <<"F", "a", "l", "s", "e">>)
      [] j.t = "num" -> (IF j.v < 0 THEN <<"-">> \o StrOf(0 - j.v) ELSE StrOf(j.v))
      [] j.t = "bignum" -> (IF j.neg THEN <<"-">> ELSE <<>>) \o j.digits
      [] j.t = "str" -> j.v
\* payload.get('amount', 0)
GetOrZero(j) == IF j.t = "missing" THEN Num(0) ELSE j

(***************************************************************************)
(* float(text): white space around, a sign, then inf, infinity or nan in   *)
(* any letter case, or decimal digits with at most one point and an        *)
(* optional exponent; single underscores between digits.                   *)
(***************************************************************************)
AsciiLower(s) ==
    [i \in DOMAIN s |-> IF Occurs(s[i], UpperCase)
                        THEN LowerCase[IndexIn(s[i], UpperCase)] ELSE s[i]]
F_infinities == {<<"i", "n", "f">>, <<"i", "n", "f", "i", "n", "i", "t", "y">>}
F_nan == <<"n", "a", "n">>

\* the text float() parses: converted to ASCII, stripped, underscores removed
FloatText(s) == NoUnderscores(Strip(Ascii(s)))
ExpMarks(b) == {i \in DOMAIN b : b[i] \in {"e", "E"}}
\* the part before the exponent mark, and the part after it
MantissaOf(b) == IF ExpMarks(b) = {} THEN b ELSE SubSeq(b, 1, FirstOf(ExpMarks(b)) - 1)
ExponentOf(b) == SubSeq(b, FirstOf(ExpMarks(b)) + 1, Len(b))
Points(m) == {i \in DOMAIN m : m[i] = "."}
MantissaOk(m) ==
    /\ \A i \in DOMAIN m : m[i] \in DigitChars \/ m[i] = "."
    /\ Cardinality(Points(m)) <= 1
    /\ \E i \in DOMAIN m : m[i] \in DigitChars

FloatTextParses(s) ==
    LET b == Unsigned(FloatText(s)) IN
    /\ UnderscoresOk(Strip(Ascii(s)))
    /\ \/ AsciiLower(b) \in F_infinities \cup {F_nan}
       \/ /\ MantissaOk(MantissaOf(b))
          /\ ExpMarks(b) # {} => IsDigits(Unsigned(ExponentOf(b)))

\* the exponent as a number: float() reads an exponent of more than nine
\* digits, leading zeros not counted, as MAX_ABS_EXP
MAX_ABS_EXP == 1100000000
ExponentValue(b) ==
    IF ExpMarks(b) = {} THEN 0
    ELSE LET x == ExponentOf(b)
             d == DropZeros(Unsigned(x))
             n == IF Len(d) > 9 THEN MAX_ABS_EXP ELSE IntOf(d)
         IN IF Len(x) > 0 /\ x[1] = "-" THEN 0 - n ELSE n

\* the decimal digits of 2^-1075 = 5^1075 / 10^1075 = 0.2470328...E-323, all
\* 752 of them: half of the smallest positive double. float() rounds a
\* value above it to 5e-324 and a value not above it to 0.0
HalfMinDigits ==
    <<2,4,7,0,3,2,8,2,2,9,2,0,6,2,3,2,7,2,0,8,8,2,8,4,3,9,6,4,3,4,
      1,1,0,6,8,6,1,8,2,5,2,9,9,0,1,3,0,7,1,6,2,3,8,2,2,1,2,7,9,2,
      8,4,1,2,5,0,3,3,7,7,5,3,6,3,5,1,0,4,3,7,5,9,3,2,6,4,9,9,1,8,
      1,8,0,8,1,7,9,9,6,1,8,9,8,9,8,2,8,2,3,4,7,7,2,2,8,5,8,8,6,5,
      4,6,3,3,2,8,3,5,5,1,7,7,9,6,9,8,9,8,1,9,9,3,8,7,3,9,8,0,0,5,
      3,9,0,9,3,9,0,6,3,1,5,0,3,5,6,5,9,5,1,5,5,7,0,2,2,6,3,9,2,2,
      9,0,8,5,8,3,9,2,4,4,9,1,0,5,1,8,4,4,3,5,9,3,1,8,0,2,8,4,9,9,
      3,6,5,3,6,1,5,2,5,0,0,3,1,9,3,7,0,4,5,7,6,7,8,2,4,9,2,1,9,3,
      6,5,6,2,3,6,6,9,8,6,3,6,5,8,4,8,0,7,5,7,0,0,1,5,8,5,7,6,9,2,
      6,9,9,0,3,7,0,6,3,1,1,9,2,8,2,7,9,5,5,8,5,5,1,3,3,2,9,2,7,8,
      3,4,3,3,8,4,0,9,3,5,1,9,7,8,0,1,5,5,3,1,2,4,6,5,9,7,2,6,3,5,
      7,9,5,7,4,6,2,2,7,6,6,4,6,5,2,7,2,8,2,7,2,2,0,0,5,6,3,7,4,0,
      0,6,4,8,5,4,9,9,9,7,7,0,9,6,5,9,9,4,7,0,4,5,4,0,2,0,8,2,8,1,
      6,6,2,2,6,2,3,7,8,5,7,3,9,3,4,5,0,7,3,6,3,3,9,0,0,7,9,6,7,7,
      6,1,9,3,0,5,7,7,5,0,6,7,4,0,1,7,6,3,2,4,6,7,3,6,0,0,9,6,8,9,
      5,1,3,4,0,5,3,5,5,3,7,4,5,8,5,1,6,6,6,1,1,3,4,2,2,3,7,6,6,6,
      7,8,6,0,4,1,6,2,1,5,9,6,8,0,4,6,1,9,1,4,4,6,7,2,9,1,8,4,0,3,
      0,0,5,3,0,0,5,7,5,3,0,8,4,9,0,4,8,7,6,5,3,9,1,7,1,1,3,8,6,5,
      9,1,6,4,6,2,3,9,5,2,4,9,1,2,6,2,3,6,5,3,8,8,1,8,7,9,6,3,6,2,
      3,9,3,7,3,2,8,0,4,2,3,8,9,1,0,1,8,6,7,2,3,4,8,4,9,7,6,6,8,2,
      3,5,0,8,9,8,6,3,3,8,8,5,8,7,9,2,5,6,2,8,3,0,2,7,5,5,9,9,5,6,
      5,7,5,2,4,4,5,5,5,0,7,2,5,5,1,8,9,3,1,3,6,9,0,8,3,6,2,5,4,7,
      7,9,1,8,6,9,4,8,6,6,7,9,9,4,9,6,8,3,2,4,0,4,9,7,0,5,8,2,1,0,
      2,8,5,1,3,1,8,5,4,5,1,3,9,6,2,1,3,8,3,7,7,2,2,8,2,6,1,4,5,4,
      3,7,6,9,3,4,1,2,5,3,2,0,9,8,5,9,1,3,2,7,6,6,7,2,3,6,3,2,8,1,
      2,5>>
DigitAt(d, i) == IF i <= Len(d) THEN IndexIn(d[i], Digits) - 1 ELSE 0
\* the digit string d, read as 0.d, is above 0.HalfMinDigits
AboveHalfMin(d) ==
    LET half(i) == IF i <= Len(HalfMinDigits) THEN HalfMinDigits[i] ELSE 0
    IN \E i \in DOMAIN d :
           /\ DigitAt(d, i) > half(i)
           /\ \A k \in 1 .. (i - 1) : DigitAt(d, k) = half(k)

\* the decimal number b (no sign) is 0.0 as a double: all its digits are 0,
\* or it is too small; with sig its digits from the first that is not 0,
\* the number is 0.sig times ten to the power DecimalExponent
DecimalExponent(b) ==
    LET m == MantissaOf(b)
        all == SelectSeq(m, LAMBDA c : c \in DigitChars)
        whole == IF Points(m) = {} THEN Len(m) ELSE FirstOf(Points(m)) - 1
    IN whole - (Len(all) - Len(DropZeros(all))) + ExponentValue(b)
IsZeroDouble(b) ==
    LET sig == DropZeros(SelectSeq(MantissaOf(b), LAMBDA c : c \in DigitChars)) IN
    \/ Len(sig) = 0
    \/ DecimalExponent(b) < -323
    \/ DecimalExponent(b) = -323 /\ ~AboveHalfMin(sig)

\* float(text) <= 0 for a text float() accepts: nan compares false
FloatTextLEZero(s) ==
    LET t == FloatText(s)
        b == Unsigned(t)
        negative == t[1] = "-"
    IN IF AsciiLower(b) = F_nan THEN FALSE
       ELSE IF AsciiLower(b) \in F_infinities THEN negative
       ELSE negative \/ IsZeroDouble(b)

(***************************************************************************)
(* The order store.                                                        *)
(***************************************************************************)
WATA_ID_MIN == 100000
WataIds == WATA_ID_MIN .. (WATA_ID_MIN + NumIds - 1)

NoUrl == "NULL"
\* the row INSERT INTO orders creates (wata/index.py:95-99): status pending,
\* no payment link, no payment time
NewOrder(id, number, wid) ==
    [id |-> id, order_number |-> number, wata_order_id |-> wid,
     status |-> "pending", paid_at |-> 0, updated_at |-> 0,
     payment_url |-> NoUrl, wata_transaction_id |-> NoUrl]

\* the rows the loop of wata/index.py:103-107 inserts for one cart
ItemRows(id, cart) ==
    {[order_id |-> id, pos |-> i, product_id |-> cart[i]] : i \in DOMAIN cart}

SetLinkUrlOnly(row, url, tx) == [row EXCEPT !.payment_url = url]
\* UPDATE orders SET payment_url, wata_transaction_id WHERE id (wata/index.py:165)
SetLink(row, url, tx) == [row EXCEPT !.payment_url = url, !.wata_transaction_id = tx]

SelectOrderAll(os, wid) == os
\* SELECT id, status FROM orders WHERE wata_order_id = %s
SelectOrder(os, wid) == {o \in os : o.wata_order_id = wid}

(***************************************************************************)
(* Webhook: status classification and transition (index.py:209-231).       *)
(***************************************************************************)
S_success == <<"s","u","c","c","e","s","s">>
S_completed == <<"c","o","m","p","l","e","t","e","d">>
S_paid == <<"p","a","i","d">>
S_failed == <<"f","a","i","l","e","d">>
S_error == <<"e","r","r","o","r">>
S_rejected == <<"r","e","j","e","c","t","e","d">>

SuccessStatuses == {S_success, S_completed, S_paid}
FailureStatuses == {S_failed, S_error, S_rejected}

\* what line 210 yields for a true value that is no string (a number other
\* than 0, true): 'int' object has no attribute 'lower'
AttributeError == <<"AttributeError">>
\* status = (webhook_data.get("status") or "").lower()
NormalizeStatus(j) ==
    IF ~Truthy(j) THEN <<>>
    ELSE IF j.t = "str" THEN Lower(j.v)
    ELSE AttributeError

ClassifyAllFailure(j) ==
    IF NormalizeStatus(j) = AttributeError THEN "raise"
    ELSE IF NormalizeStatus(j) \in SuccessStatuses THEN "success" ELSE "failure"

ClassifyAllSuccess(j) ==
    IF NormalizeStatus(j) = AttributeError THEN "raise"
    ELSE IF NormalizeStatus(j) \in FailureStatuses THEN "failure" ELSE "success"

\* line 210 raising, or the if / elif of lines 212 and 223
Classify(j) ==
    LET status == NormalizeStatus(j) IN
    IF status = AttributeError THEN "raise"
    ELSE IF status \in SuccessStatuses THEN "success"
    ELSE IF status \in FailureStatuses THEN "failure"
    ELSE "ignore"

NeedsUpdateAlways(class, current_status) == class \in {"success", "failure"}
NeedsUpdateKeepPaid(class, current_status) ==
    class \in {"success", "failure"} /\ current_status # "paid"

\* whether the handler issues an UPDATE: success only when the status read
\* is not paid (line 214), failure always (line 223)
NeedsUpdate(class, current_status) ==
    \/ class = "success" /\ current_status # "paid"
    \/ class = "failure"

UpdateRowClearPaidAt(row, class, ts) ==
    IF class = "success"
    THEN [row EXCEPT !.status = "paid", !.paid_at = ts, !.updated_at = ts]
    ELSE [row EXCEPT !.status = "failed", !.paid_at = 0, !.updated_at = ts]
UpdateRowKeepFirstPaidAt(row, class, ts) ==
    IF class = "success"
    THEN [row EXCEPT !.status = "paid", !.updated_at = ts,
                     !.paid_at = IF row.paid_at = 0 THEN ts ELSE row.paid_at]
    ELSE [row EXCEPT !.status = "failed", !.updated_at = ts]
\* the two UPDATE statements (lines 215-219 and 225-229) on one row
UpdateRow(row, class, ts) ==
    IF class = "success"
    THEN [row EXCEPT !.status = "paid", !.paid_at = ts, !.updated_at = ts]
    ELSE [row EXCEPT !.status = "failed", !.updated_at = ts]

\* UPDATE orders ... WHERE id = %s, then commit
ApplyUpdate(os, id, class, ts) ==
    {IF o.id = id THEN UpdateRow(o, class, ts) ELSE o : o \in os}

(***************************************************************************)
(* Webhook: the public-key cache (index.py:15-53).                         *)
(***************************************************************************)
NoKey == "None"
K1 == "pem-key-1"
K2 == "pem-key-2"
NotPem == "not-a-pem-key"
\* values load_pem_public_key accepts
PemKeys == {K1, K2}

\* what the GET /public-key request can end in: a transport error or timeout,
\* a non-200 status, a 200 whose body is not a JSON object, a 200 JSON object
\* without a usable "value", a 200 serving the provider's key, and a 200
\* serving a value that is no PEM key
FetchOutcomes == {"neterr", "non200", "badjson", "novalue", "ok", "garbage"}

CacheHitNever(cache) == FALSE
\* if _public_key_cache: return _public_key_cache (line 31)
CacheHit(cache) == cache # NoKey

\* client.get (line 37) or response.json() / data.get (lines 46-47) raising
FetchRaises(outcome) == outcome \in {"neterr", "badjson"}

\* public_key = data.get("value") of a 200 response, None otherwise
FetchedKey(outcome, served) ==
    IF outcome = "ok" THEN served
    ELSE IF outcome = "garbage" THEN NotPem
    ELSE NoKey

CacheAfterFetchNegative(cache, outcome, served) ==
    IF FetchRaises(outcome) THEN cache
    ELSE IF FetchedKey(outcome, served) = NoKey THEN NotPem
    ELSE FetchedKey(outcome, served)
CacheAfterFetchUnconditional(cache, outcome, served) ==
    IF FetchRaises(outcome) THEN cache ELSE FetchedKey(outcome, served)
\* if public_key: _public_key_cache = public_key (lines 49-50)
CacheAfterFetch(cache, outcome, served) ==
    IF ~FetchRaises(outcome) /\ FetchedKey(outcome, served) # NoKey
    THEN FetchedKey(outcome, served)
    ELSE cache

(***************************************************************************)
(* Webhook: signature verification (index.py:56-100).                      *)
(***************************************************************************)
Absent == [kind |-> "absent"]
BadBase64 == [kind |-> "badb64"]
Forged == [kind |-> "forged"]
\* the provider's signature made with the private half of key k over payload c
Signed(k, c) == [kind |-> "signed", key |-> k, over |-> c]

\* True only when the key was obtained and loads, the signature decodes and
\* key.verify accepts it for exactly this payload; False otherwise.  The call
\* of get_wata_public_key (line 67) is outside every try block.
VerifyWebhookSignature(key, payload, signature) ==
    IF key = NoKey THEN FALSE
    ELSE IF key \notin PemKeys THEN FALSE
    ELSE IF signature.kind = "badb64" THEN FALSE
    ELSE /\ signature.kind = "signed"
         /\ signature.key = key
         /\ signature.over = payload

(***************************************************************************)
(* Webhook: the event and its parsing (index.py:135-185).                  *)
(***************************************************************************)
HeaderGet(h, n) == IF n \in DOMAIN h THEN h[n] ELSE Absent
\* headers.get('X-Signature') or ... or '' : the first non-empty of the four
GetSignature(h) ==
    IF HeaderGet(h, "X-Signature").kind # "absent" THEN h["X-Signature"]
    ELSE IF HeaderGet(h, "x-signature").kind # "absent" THEN h["x-signature"]
    ELSE IF HeaderGet(h, "X-Wata-Signature").kind # "absent" THEN h["X-Wata-Signature"]
    ELSE IF HeaderGet(h, "x-wata-signature").kind # "absent" THEN h["x-wata-signature"]
    ELSE Absent

\* base64.b64decode(body).decode('utf-8') raises on a body that is no base64
BodyDecodes(ev) == ev.isBase64Encoded => ev.decodable

M_OPTIONS == <<"O","P","T","I","O","N","S">>
M_options == <<"o","p","t","i","o","n","s">>
M_POST == <<"P","O","S","T">>

InvalidJson == [json |-> "invalid", orderId |-> Null, status |-> Null]
JsonArray == [json |-> "array", orderId |-> Null, status |-> Null]
Obj(oid, st) == [json |-> "object", orderId |-> oid, status |-> st]

KnownId == Str(StrOf(WATA_ID_MIN))
UnknownId == Str(StrOf(WATA_ID_MIN + NumIds))
\* statuses: absent, the six recognised ones in several letter cases, one
\* that is not recognised, PAID written with I WITH DOT ABOVE (lower-cased to
\* five characters), and a number
StatusInputs ==
    {Null, Str(S_success), Str(<<"P","a","i","d">>), Str(Upper(S_completed)),
     Str(S_failed), Str(<<"E","r","r","o","r">>), Str(Upper(S_rejected)),
     Str(<<"p","e","n","d","i","n","g","_","r","e","v","i","e","w">>),
     Str(<<"P","A","U+0130","D">>), Num(5)}

\* order ids: absent, empty, not a number, a number of no order, a negative
\* number, the existing order's id as a JSON number and as text with
\* white space around it, and a text of one digit more than int() converts
Contents ==
    {InvalidJson, JsonArray}
    \cup {Obj(oid, Str(S_success)) :
            oid \in {Null, Str(<<>>), Str(<<"a","b","c">>), UnknownId, Str(<<"-","5">>),
                     Num(WATA_ID_MIN), Str(<<" ">> \o StrOf(WATA_ID_MIN) \o <<"\n">>),
                     Str([i \in 1 .. (MAX_STR_DIGITS + 1) |-> "1"])}}
    \cup {Obj(KnownId, st) : st \in StatusInputs}

Event(m, b64, dec, c, h) ==
    [method |-> m, isBase64Encoded |-> b64, decodable |-> dec, content |-> c,
     headers |-> h, db |-> TRUE]
\* the same event in a process without DATABASE_URL (line 22)
NoDb(ev) == [ev EXCEPT !.db = FALSE]

C0 == Obj(KnownId, Str(S_success))

Events ==
    {Event(m, FALSE, TRUE, C0, <<>>) :
        m \in {M_OPTIONS, M_options, <<"o","p","t","U+0131","o","n","s">>}}
    \cup {Event(M_POST, FALSE, TRUE, c, ("X-Signature" :> Signed(K1, c))) :
            c \in Contents}
    \cup {Event(M_POST, FALSE, TRUE, c, ("X-Signature" :> Signed(K2, c))) :
            c \in {C0, Obj(KnownId, Str(S_failed))}}
    \cup {NoDb(Event(M_POST, FALSE, TRUE, C0, ("X-Signature" :> Signed(K1, C0))))}
    \cup {Event(M_POST, FALSE, TRUE, C0, ("X-Signature" :> s)) :
            s \in {Absent, BadBase64, Forged, Signed(K1, Obj(KnownId, Str(S_failed)))}}
    \cup {Event(M_POST, FALSE, TRUE, c, <<>>) : c \in {C0, InvalidJson}}
    \cup {Event(M_POST, FALSE, TRUE, C0, (n :> Signed(K1, C0))) :
            n \in {"x-signature", "X-Wata-Signature", "x-wata-signature", "X-SIGNATURE"}}
    \cup {Event(M_POST, TRUE, d, C0, ("X-Signature" :> s)) :
            d \in BOOLEAN, s \in {Forged, Signed(K1, C0)}}

\* the callbacks the concurrent specification delivers: correctly signed,
\* for the existing order
SignedEvents ==
    {Event(M_POST, FALSE, TRUE, c, ("X-Signature" :> Signed(K1, c))) :
        c \in {Obj(KnownId, Str(S_success)), Obj(KnownId, Str(S_failed))}}

NoEvent == Event(<<>>, FALSE, TRUE, InvalidJson, <<>>)
\* locals of one invocation: the event, the key get_wata_public_key returned,
\* the outcome of verify_webhook_signature, the response, the connection, and
\* the row read (db_order_id, current_status) with its transaction's time
IdleW == [pc |-> "idle", ev |-> NoEvent, key |-> NoKey, verified |-> "unset",
          resp |-> "none", conn |-> "none", dbid |-> 0, cur |-> "none", ts |-> 0]

Respond(w, code) == [w EXCEPT !.pc = "done", !.resp = code]
\* closes the connection (cur.close(); conn.close()) and responds
CloseRespond(w, code) == [w EXCEPT !.pc = "done", !.resp = code, !.conn = "closed"]

\* lines 155-185 once the key (or None) is in hand: signature check, JSON
\* parsing, order id presence
AfterKey(w, key) ==
    IF ~VerifyWebhookSignature(key, w.ev.content, GetSignature(w.ev.headers))
    THEN Respond([w EXCEPT !.key = key, !.verified = "false"], "401")
    ELSE LET v == [w EXCEPT !.key = key, !.verified = "true"] IN
         IF v.ev.content.json = "invalid" THEN Respond(v, "400")
         ELSE IF v.ev.content.json = "array" THEN Respond(v, "raised")
         ELSE IF ~Truthy(v.ev.content.orderId) THEN Respond(v, "400")
         ELSE [v EXCEPT !.pc = "select"]

(***************************************************************************)
(* Webhook: the handler, one action per access to shared state.            *)
(***************************************************************************)
W1 == "w1"
W2 == "w2"
Workers == {W1, W2}

\* lines 135-153 and the cache lookup of line 31: OPTIONS is answered at once,
\* an undecodable base64 body raises, a cached key goes straight to the
\* signature check, an empty cache sends GET /public-key
WBegin(p, ev) ==
    /\ wh[p].pc \in {"idle", "done"}
    /\ delivered < MaxDeliveries
    /\ delivered' = delivered + 1
    /\ LET w == [IdleW EXCEPT !.ev = ev] IN
       wh' = [wh EXCEPT ![p] =
                IF Upper(ev.method) = M_OPTIONS THEN Respond(w, "200")
                ELSE IF ~BodyDecodes(ev) THEN Respond(w, "raised")
                ELSE IF CacheHit(publicKeyCache) THEN AfterKey(w, publicKeyCache)
                ELSE [w EXCEPT !.pc = "fetch"]]
    /\ UNCHANGED <<keyVars, storeVars, intakeVars>>

\* lines 36-53: the response to GET /public-key arrives; an exception leaves
\* get_wata_public_key and verify_webhook_signature and ends the invocation
WFetch(p, outcome) ==
    /\ wh[p].pc = "fetch"
    /\ keyCalls' = keyCalls + 1
    /\ keyLoads' = IF ~FetchRaises(outcome) /\ FetchedKey(outcome, providerKey) # NoKey
                   THEN keyLoads + 1 ELSE keyLoads
    /\ publicKeyCache' = CacheAfterFetch(publicKeyCache, outcome, providerKey)
    /\ wh' = [wh EXCEPT ![p] =
                IF FetchRaises(outcome)
                THEN Respond([wh[p] EXCEPT !.verified = "raised"], "raised")
                ELSE AfterKey(wh[p], FetchedKey(outcome, providerKey))]
    /\ UNCHANGED <<providerKey, storeVars, delivered, intakeVars>>

\* lines 187-213: connect (get_db_connection raises without DATABASE_URL),
\* int(order_id_str), SELECT (which begins the transaction), not-found,
\* classification.  An id int() rejects raises after the connection was
\* opened and before it is closed, and so does a status that has no lower().
WSelect(p) ==
    /\ wh[p].pc = "select"
    /\ LET w == [wh[p] EXCEPT !.conn = "open"]
           oid == w.ev.content.orderId
           class == Classify(w.ev.content.status)
       IN IF ~wh[p].ev.db
          THEN /\ wh' = [wh EXCEPT ![p] = Respond(wh[p], "raised")]
               /\ UNCHANGED clock
          ELSE IF ~IntParses(oid)
          THEN /\ wh' = [wh EXCEPT ![p] = Respond(w, "raised")]
               /\ UNCHANGED clock
          ELSE /\ clock' = clock + 1
               /\ IF SelectOrder(orders, IntValue(oid)) = {}
                  THEN wh' = [wh EXCEPT ![p] = CloseRespond(w, "404")]
                  ELSE \E row \in SelectOrder(orders, IntValue(oid)) :
                         LET r == [w EXCEPT !.dbid = row.id, !.cur = row.status,
                                            !.ts = clock']
                         IN wh' = [wh EXCEPT ![p] =
                                     IF class = "raise"
                                     THEN Respond(r, "raised")
                                     ELSE IF NeedsUpdate(class, row.status)
                                     THEN [r EXCEPT !.pc = "apply"]
                                     ELSE CloseRespond(r, "200")]
    /\ UNCHANGED <<keyVars, orders, items, nextId, delivered, intakeVars>>

\* lines 215-241: the UPDATE and its commit, close, 200
WApply(p) ==
    /\ wh[p].pc = "apply"
    /\ orders' = ApplyUpdate(orders, wh[p].dbid, Classify(wh[p].ev.content.status),
                             wh[p].ts)
    /\ wh' = [wh EXCEPT ![p] = CloseRespond(wh[p], "200")]
    /\ UNCHANGED <<keyVars, items, nextId, clock, delivered, intakeVars>>

\* the provider replaces its signing key
RotateKey ==
    /\ providerKey = K1
    /\ providerKey' = K2
    /\ UNCHANGED <<publicKeyCache, keyCalls, keyLoads, storeVars, wh, delivered,
                   intakeVars>>

(***************************************************************************)
(* Order intake (wata/index.py:47-181).                                    *)
(***************************************************************************)

\* datetime.now().strftime('%Y%m%d') on the day of the run
Today == <<"2","0","2","4","0","5","1","7">>
\* f"ORD-{date}-{wata_order_id}" (line 93)
OrderNumber(date, wid) == <<"O","R","D","-">> \o date \o <<"-">> \o StrOf(wid)

\* the decimal digits of 2^1024 - 2^970, the least integer float() cannot
\* convert: it rounds to 2^1024 and float() raises OverflowError
OverflowDigits ==
    <<1,7,9,7,6,9,3,1,3,4,8,6,2,3,1,5,8,0,7,9,3,7,2,8,9,7,1,4,0,5,
      3,0,3,4,1,5,0,7,9,9,3,4,1,3,2,7,1,0,0,3,7,8,2,6,9,3,6,1,7,3,
      7,7,8,9,8,0,4,4,4,9,6,8,2,9,2,7,6,4,7,5,0,9,4,6,6,4,9,0,1,7,
      9,7,7,5,8,7,2,0,7,0,9,6,3,3,0,2,8,6,4,1,6,6,9,2,8,8,7,9,1,0,
      9,4,6,5,5,5,5,4,7,8,5,1,9,4,0,4,0,2,6,3,0,6,5,7,4,8,8,6,7,1,
      5,0,5,8,2,0,6,8,1,9,0,8,9,0,2,0,0,0,7,0,8,3,8,3,6,7,6,2,7,3,
      8,5,4,8,4,5,8,1,7,7,1,1,5,3,1,7,6,4,4,7,5,7,3,0,2,7,0,0,6,9,
      8,5,5,5,7,1,3,6,6,9,5,9,6,2,2,8,4,2,9,1,4,8,1,9,8,6,0,8,3,4,
      9,3,6,4,7,5,2,9,2,7,1,9,0,7,4,1,6,8,4,4,4,3,6,5,5,1,0,7,0,4,
      3,4,2,7,1,1,5,5,9,6,9,9,5,0,8,0,9,3,0,4,2,8,8,0,1,7,7,9,0,4,
      1,7,4,4,9,7,7,9,2>>
\* float(payload.get('amount', 0)) returns (line 68): a number converts
\* unless its magnitude is OverflowDigits or more, text as float() parses
\* it, null raises TypeError
AmountParses(a) ==
    LET j == GetOrZero(a)
        below(d) == \E i \in DOMAIN d :
                       /\ DigitAt(d, i) < OverflowDigits[i]
                       /\ \A k \in 1 .. (i - 1) : DigitAt(d, k) = OverflowDigits[k]
    IN CASE j.t \in {"num", "bool"} -> TRUE
         [] j.t = "bignum" -> \/ Len(j.digits) < Len(OverflowDigits)
                              \/ Len(j.digits) = Len(OverflowDigits) /\ below(j.digits)
         [] j.t = "str" -> FloatTextParses(j.v)
         [] j.t = "null" -> FALSE
\* amount <= 0 (line 78)
AmountLEZero(a) ==
    LET j == GetOrZero(a) IN
    CASE j.t = "num" -> j.v <= 0
      [] j.t = "bool" -> ~j.v
      [] j.t = "bignum" -> j.neg
      [] j.t = "str" -> FloatTextLEZero(j.v)
\* user_name = str(payload.get('user_name', '')) (lines 69-70)
NameText(j) == IF j.t = "missing" THEN <<>> ELSE PyStr(j)

Body(amount, name, email, cart) ==
    [json |-> "object", amount |-> amount, user_name |-> name,
     user_email |-> email, cart_items |-> cart]
BadBody == [json |-> "invalid"]
Request(m, token, body) ==
    [method |-> m, token |-> token, body |-> body, db |-> TRUE]
\* the same request in a process without DATABASE_URL (line 31)
NoDbRequest(r) == [r EXCEPT !.db = FALSE]

GoodName == Str(<<"A">>)
GoodEmail == Str(<<"a","@","x">>)
GoodBodies == {Body(Num(100), GoodName, GoodEmail, cart) : cart \in {<<>>, <<1, 2>>}}
\* amounts: 0, negative, absent (0 by default), null, text that is no number,
\* negative text, text too small for a double, 2^-1075 written out (0.0 as
\* a double), and three texts float() accepts with a value that passes
\* line 78: 15.5, nan, and 41 digits just above 2^-1075 (5e-324); the
\* integers 10^309 negated and 2^1024 - 2^970, which float() does not
\* convert, and the integer one below, which it does
AmountInputs ==
    {Num(0), Num(-5), Missing, Null, Str(<<"a","b","c">>), Str(<<"-","5">>),
     Str(<<"1","e","-","4","0","0">>),
     Str(<<"0",".">> \o [i \in DOMAIN HalfMinDigits |-> Digits[HalfMinDigits[i] + 1]]
         \o <<"e","-","3","2","3">>),
     Str(<<"0",".">> \o [i \in 1 .. 40 |-> Digits[HalfMinDigits[i] + 1]]
         \o <<"3","e","-","3","2","3">>),
     Str(<<" ","1","_","5",".","5","e","0","\n">>), Str(<<"n","a","n">>),
     BigNum(TRUE, <<"1">> \o [i \in 1 .. Len(OverflowDigits) |-> "0"]),
     BigNum(FALSE, [i \in DOMAIN OverflowDigits |-> Digits[OverflowDigits[i] + 1]]),
     BigNum(FALSE, [i \in DOMAIN OverflowDigits |->
                      IF i = Len(OverflowDigits) THEN Digits[OverflowDigits[i]]
                      ELSE Digits[OverflowDigits[i] + 1]])}
\* names: empty, absent, and null, which str() turns into the text None
Requests ==
    {Request(M_POST, TRUE, b) : b \in GoodBodies}
    \cup {Request(m, TRUE, Body(Num(100), GoodName, GoodEmail, <<1>>)) :
            m \in {M_options, <<"G","E","T">>, <<"o","p","t","i","o","n","U+017F">>}}
    \cup {Request(M_POST, FALSE, Body(Num(100), GoodName, GoodEmail, <<1>>))}
    \cup {Request(M_POST, TRUE, BadBody)}
    \cup {Request(M_POST, TRUE, Body(a, GoodName, GoodEmail, <<1>>)) : a \in AmountInputs}
    \cup {Request(M_POST, TRUE, Body(Num(100), n, GoodEmail, <<1>>)) : n \in {Str(<<>>), Missing, Null}}
    \cup {Request(M_POST, TRUE, Body(Num(100), GoodName, Str(<<>>), <<1>>))}
    \cup {NoDbRequest(Request(M_POST, TRUE, Body(Num(100), GoodName, GoodEmail, <<1>>)))}

\* what POST /links can end in: a transport error or timeout, a non-200
\* status, a 200 whose body is not JSON, a 200 whose JSON body is not an
\* object, a 200 JSON object without paymentUrl and url, a 200 with the link
\* and the provider's transaction id
LinkOutcomes == {"neterr", "non200", "badjson", "nonobject", "nolink", "ok"}
\* client.post raises (line 131), response.json() raises (line 151), or
\* data.get raises AttributeError (line 152)
LinkRaises(outcome) == outcome \in {"neterr", "badjson", "nonobject"}
LinkUrl == "https://pay/x"
LinkTx == "tx1"

\* random.randint(100000, 2147483647) tried up to range(10) times (line 87)
MAX_ATTEMPTS == 10

Intakers == {"i1", "i2"}
\* locals of one invocation: the request, the loop counter, wata_order_id,
\* order_id, the cart rows of the open transaction, the response
IdleI == [pc |-> "idle", req |-> Request(<<>>, FALSE, BadBody), attempts |-> 0,
          wid |-> 0, order_id |-> 0, link |-> "none", resp |-> "none",
          body |-> [payment_url |-> NoUrl], conn |-> "none"]

RespondI(i, code) == [i EXCEPT !.pc = "done", !.resp = code, !.wid = 0]
CloseRespondI(i, code) ==
    [i EXCEPT !.pc = "done", !.resp = code, !.wid = 0, !.conn = "closed"]

\* lines 53-84: method, credentials, body parsing, validation, connect;
\* json.loads, float and get_db_connection raise, the rest responds
Validate(i) ==
    LET r == i.req IN
    IF Upper(r.method) = M_OPTIONS THEN RespondI(i, "200")
    ELSE IF Upper(r.method) # M_POST THEN RespondI(i, "405")
    ELSE IF ~r.token THEN RespondI(i, "500")
    ELSE IF r.body.json = "invalid" THEN RespondI(i, "raised")
    ELSE IF ~AmountParses(r.body.amount) THEN RespondI(i, "raised")
    ELSE IF AmountLEZero(r.body.amount) THEN RespondI(i, "400")
    ELSE IF Len(NameText(r.body.user_name)) = 0 \/ Len(NameText(r.body.user_email)) = 0
         THEN RespondI(i, "400")
    ELSE IF ~r.db THEN RespondI(i, "raised")
    ELSE [i EXCEPT !.pc = "pick", !.conn = "open"]

\* lines 53-84 for each request of Requests, computed once
Validated == [r \in Requests |-> Validate([IdleI EXCEPT !.req = r])]

IBegin(p, req) ==
    /\ ik[p].pc \in {"idle", "done"}
    /\ intakes < MaxIntakes
    /\ intakes' = intakes + 1
    /\ ik' = [ik EXCEPT ![p] = IF req \in Requests THEN Validated[req]
                               ELSE Validate([IdleI EXCEPT !.req = req])]
    /\ UNCHANGED <<keyVars, storeVars, wh, delivered>>

\* the loop leaves with the id just drawn when no committed row has it
\* (break, line 91) or when this was the last of the ten draws
LoopEnds(attempts, count) == count = 0 \/ attempts = MAX_ATTEMPTS

\* lines 87-91: one draw and its SELECT COUNT(*)
IPick(p, wid) ==
    /\ ik[p].pc = "pick"
    /\ LET n == ik[p].attempts + 1
           count == Cardinality(SelectOrder(orders, wid))
       IN ik' = [ik EXCEPT ![p] =
                   IF LoopEnds(n, count)
                   THEN [@ EXCEPT !.attempts = 0, !.wid = wid, !.pc = "insert"]
                   ELSE [@ EXCEPT !.attempts = n]]
    /\ UNCHANGED <<keyVars, storeVars, wh, delivered, intakes>>

\* lines 93-107: INSERT INTO orders ... RETURNING id and the item inserts,
\* inside the still open transaction; the id comes from the table's sequence
IInsert(p) ==
    /\ ik[p].pc = "insert"
    /\ nextId' = nextId + 1
    /\ ik' = [ik EXCEPT ![p] = [@ EXCEPT !.order_id = nextId, !.pc = "provider"]]
    /\ UNCHANGED <<keyVars, orders, items, clock, wh, delivered, intakes>>

\* the rows of table orders after the connection is closed: the open
\* transaction's row only if conn.commit() ran (line 167); a close without
\* commit (lines 142-143, 156-157) discards it
OrdersAfter(os, row, committed) == IF committed THEN os \cup {row} ELSE os
ItemsAutocommit(its, rows, committed) == its \cup rows
\* the rows of table order_items after the connection is closed, likewise
ItemsAfter(its, rows, committed) == IF committed THEN its \cup rows ELSE its

\* lines 130-181: the response to POST /links arrives; an exception leaves
\* the handler with the connection open and nothing committed
IProvider(p, outcome) ==
    /\ ik[p].pc = "provider"
    /\ LET i == ik[p]
           number == OrderNumber(Today, i.wid)
           row == NewOrder(i.order_id, number, i.wid)
           linked == SetLink(row, LinkUrl, LinkTx)
           cart == ItemRows(i.order_id, i.req.body.cart_items)
           j == [i EXCEPT !.link = outcome]
       IN IF LinkRaises(outcome)
          THEN /\ ik' = [ik EXCEPT ![p] = RespondI(j, "raised")]
               /\ orders' = OrdersAfter(orders, row, FALSE)
               /\ items' = ItemsAfter(items, cart, FALSE)
          ELSE IF outcome \in {"non200", "nolink"}
          THEN /\ ik' = [ik EXCEPT ![p] = CloseRespondI(j, "500")]
               /\ orders' = OrdersAfter(orders, row, FALSE)
               /\ items' = ItemsAfter(items, cart, FALSE)
          ELSE /\ ik' = [ik EXCEPT ![p] =
                           CloseRespondI([j EXCEPT !.body =
                               [payment_url |-> LinkUrl, order_id |-> i.order_id,
                                order_number |-> number,
                                wata_transaction_id |-> LinkTx]], "200")]
               /\ orders' = OrdersAfter(orders, linked, TRUE)
               /\ items' = ItemsAfter(items, cart, TRUE)
    /\ UNCHANGED <<keyVars, nextId, clock, wh, delivered, intakes>>

\* the store as one successful intake leaves it: one pending order with its
\* payment link and one item
LinkedOrder ==
    SetLink(NewOrder(1, OrderNumber(Today, WATA_ID_MIN), WATA_ID_MIN), LinkUrl, LinkTx)

InitKey ==
    /\ publicKeyCache = NoKey
    /\ providerKey = K1
    /\ keyCalls = 0
    /\ keyLoads = 0

Init ==
    /\ InitKey
    /\ orders = {LinkedOrder}
    /\ items = ItemRows(1, <<1>>)
    /\ nextId = 2
    /\ clock = 0
    /\ wh = [p \in Workers |-> IdleW]
    /\ delivered = 0
    /\ ik = [p \in Intakers |-> IdleI]
    /\ intakes = 0

\* webhook deliveries handled one after the other by one process
Next ==
    \/ \E ev \in Events : WBegin(W1, ev)
    \/ \E outcome \in FetchOutcomes : WFetch(W1, outcome)
    \/ WSelect(W1)
    \/ WApply(W1)
    \/ RotateKey

Spec == Init /\ [][Next]_vars

\* signed callbacks for one order delivered concurrently, and a key rotation
NextConc ==
    \/ \E p \in Workers, ev \in SignedEvents : WBegin(p, ev)
    \/ \E p \in Workers, outcome \in FetchOutcomes : WFetch(p, outcome)
    \/ \E p \in Workers : WSelect(p)
    \/ \E p \in Workers : WApply(p)
    \/ RotateKey

SpecConc == Init /\ [][NextConc]_vars

\* the store before the first order
InitIntake ==
    /\ InitKey
    /\ orders = {}
    /\ items = {}
    /\ nextId = 1
    /\ clock = 0
    /\ wh = [p \in Workers |-> IdleW]
    /\ delivered = 0
    /\ ik = [p \in Intakers |-> IdleI]
    /\ intakes = 0

\* intake requests handled concurrently
NextIntake ==
    \/ \E p \in Intakers, req \in Requests : IBegin(p, req)
    \/ \E p \in Intakers, wid \in WataIds : IPick(p, wid)
    \/ \E p \in Intakers : IInsert(p)
    \/ \E p \in Intakers, outcome \in LinkOutcomes : IProvider(p, outcome)

SpecIntake == InitIntake /\ [][NextIntake]_vars

\* checkout requests that pass validation
StoreRequests ==
    {Request(M_POST, TRUE, b) : b \in {g \in GoodBodies : g.cart_items # <<>>}}

\* correctly signed callbacks naming any provider order id in use
StoreEvents ==
    {Event(M_POST, FALSE, TRUE, c, ("X-Signature" :> Signed(K1, c))) :
        c \in {Obj(Str(StrOf(wid)), Str(st)) :
                 wid \in WataIds,
                 st \in {S_success, S_failed}}}

I1 == "i1"

\* intake requests and verified callbacks against one store, starting empty
NextStore ==
    \/ \E req \in StoreRequests : IBegin(I1, req)
    \/ \E wid \in WataIds : IPick(I1, wid)
    \/ IInsert(I1)
    \/ \E outcome \in {"ok", "non200"} : IProvider(I1, outcome)
    \/ \E ev \in StoreEvents : WBegin(W1, ev)
    \/ WFetch(W1, "ok")
    \/ WSelect(W1)
    \/ WApply(W1)

SpecStore == InitIntake /\ [][NextStore]_vars

(***************************************************************************)
(* Properties.                                                             *)
(***************************************************************************)
IsOptions(w) == Upper(w.ev.method) = M_OPTIONS
\* the invocation went as far as calling verify_webhook_signature
CalledVerify(w) == w.pc = "done" /\ ~IsOptions(w) /\ BodyDecodes(w.ev)
StatusOf(w) == NormalizeStatus(w.ev.content.status)
RowOf(os, id) == {o \in os : o.id = id}

\* C1: every webhook request (not OPTIONS) whose signature is absent or does
\* not verify is answered 401 and no store connection is opened.  Stated for
\* the requests whose body reaches the signature check.
C1_Unverified401 ==
    \A p \in Workers :
        (CalledVerify(wh[p]) /\ wh[p].verified # "true")
            => (wh[p].resp = "401" /\ wh[p].conn = "none")

\* C2: verify_webhook_signature always returns a boolean and never raises:
\* with an empty cache and a failing key fetch it returns False.
C2_VerifyNeverRaises ==
    \A p \in Workers :
        CalledVerify(wh[p]) => wh[p].verified \in {"true", "false"}

\* C3: a success-classified callback delivered for an order that an earlier
\* delivery already set to paid performs no write: afterwards the order is
\* paid and its paid_at and updated_at are not this delivery's time.
C3_IdempotentRedelivery ==
    \A p \in Workers :
        (wh[p].pc = "done" /\ wh[p].resp = "200" /\ wh[p].cur = "paid"
         /\ StatusOf(wh[p]) \in SuccessStatuses)
            => /\ RowOf(orders, wh[p].dbid) # {}
               /\ \A o \in RowOf(orders, wh[p].dbid) :
                    /\ o.status = "paid"
                    /\ o.paid_at # 0
                    /\ o.paid_at < wh[p].ts
                    /\ o.updated_at < wh[p].ts

C3_Witness ==
    /\ wh[W1].pc = "done" /\ wh[W1].resp = "200" /\ wh[W1].cur = "paid"
    /\ StatusOf(wh[W1]) = S_completed
    /\ \E o \in orders : o.status = "paid" /\ o.paid_at = 1 /\ wh[W1].ts = 2

\* C4: a failure-classified callback for an existing order always writes:
\* when it has completed the order's status is failed, whatever the status
\* read was, also when an earlier success callback had set it to paid.
C4_FailureOverwrites ==
    \A p \in Workers :
        (wh[p].pc = "done" /\ wh[p].dbid # 0 /\ StatusOf(wh[p]) \in FailureStatuses)
            => /\ wh[p].resp = "200"
               /\ RowOf(orders, wh[p].dbid) # {}
               /\ \A o \in RowOf(orders, wh[p].dbid) :
                    o.status = "failed" /\ o.updated_at = wh[p].ts

C4_Witness ==
    /\ wh[W1].pc = "done" /\ wh[W1].cur = "paid"
    /\ StatusOf(wh[W1]) \in FailureStatuses
    /\ \E o \in orders : o.status = "failed" /\ o.paid_at # 0

\* C5 as stated: once an order's status is paid, no later callback changes it.
C5_PaidIsTerminal ==
    [][\A o \in orders : \A n \in orders' :
          (n.id = o.id /\ o.status = "paid") => n.status = "paid"]_vars

\* C5 as amended: a paid order's status changes only by the UPDATE of a
\* failure-classified callback for that order, and then to failed; duplicate
\* success callbacks and unrecognized ones leave it paid.
C5_PaidChangesOnlyByFailure ==
    [][\A o \in orders : \A n \in orders' :
          (n.id = o.id /\ o.status = "paid" /\ n.status # "paid")
              => /\ n.status = "failed"
                 /\ \E p \in Workers :
                      /\ wh[p].pc = "apply" /\ wh'[p].pc = "done"
                      /\ wh[p].dbid = o.id
                      /\ StatusOf(wh[p]) \in FailureStatuses]_vars

C5_Witness ==
    /\ wh[W1].pc = "done" /\ wh[W1].resp = "200" /\ wh[W1].cur = "paid"
    /\ StatusOf(wh[W1]) \notin (SuccessStatuses \cup FailureStatuses)
    /\ \E o \in orders : o.id = wh[W1].dbid /\ o.status = "paid"

\* C6: under concurrent delivery the paid write is conditional on the status
\* at the time of the write: no success callback executes its UPDATE on an
\* order that another callback has already set to paid.
C6_SingleConditionalWrite ==
    [][\A p \in Workers :
          (wh[p].pc = "apply" /\ wh'[p].pc = "done"
           /\ StatusOf(wh[p]) \in SuccessStatuses)
              => \A o \in RowOf(orders, wh[p].dbid) : o.status # "paid"]_vars

\* the provider answered POST /links with a non-200 status or with a
\* response that holds no usable payment link
CheckoutFailed(i) ==
    i.pc = "done" /\ i.link \in {"non200", "badjson", "nonobject", "nolink"}

\* C7: after a provider answer that is non-200 or holds no usable payment
\* link the intake has answered 500 and the store holds the new order row,
\* pending and without a payment link.
C7_FailedCheckoutKeepsOrder ==
    \A p \in Intakers :
        CheckoutFailed(ik[p])
            => /\ ik[p].resp = "500"
               /\ \E o \in RowOf(orders, ik[p].order_id) :
                    o.status = "pending" /\ o.payment_url = NoUrl

\* C8: no two committed orders share a wata_order_id.
C8_UniqueWataOrderId ==
    \A a \in orders : \A b \in orders :
        a.wata_order_id = b.wata_order_id => a.id = b.id

\* C9 as stated: at most one GET /public-key is ever issued.
C9_AtMostOneKeyCall == keyCalls <= 1

\* C9 as amended: a GET /public-key is issued only while the cache is empty,
\* one per call; at most one of them ever returns a key, which is the one
\* cached; a call that finds the cache empty, also after failed fetches,
\* issues a new GET.
C9_OneSuccessfulKeyCall ==
    /\ [](keyLoads <= 1 /\ keyLoads <= keyCalls
          /\ (keyLoads = 1 <=> publicKeyCache # NoKey))
    /\ [][keyCalls' # keyCalls
            => (keyCalls' = keyCalls + 1 /\ publicKeyCache = NoKey)]_vars
    /\ [][\A p \in Workers :
            (delivered' = delivered + 1 /\ wh'[p] # wh[p]
             /\ ~IsOptions(wh'[p]) /\ BodyDecodes(wh'[p].ev)
             /\ publicKeyCache = NoKey)
                => wh'[p].pc = "fetch"]_vars

C9_Witness ==
    /\ keyCalls = 3 /\ keyLoads = 1 /\ publicKeyCache = K1
    /\ wh[W1].pc = "done" /\ wh[W1].verified = "true"

\* C10: once a key is cached, the cache never changes and no GET /public-key
\* is issued; every later call returns the cached key, also after the
\* provider rotated its key; a failed fetch leaves the cache empty.
C10_CacheIsStable ==
    /\ [][publicKeyCache # NoKey
            => /\ publicKeyCache' = publicKeyCache
               /\ keyCalls' = keyCalls
               /\ \A p \in Workers :
                    (wh'[p] # wh[p] /\ wh'[p].verified # "unset")
                        => wh'[p].key = publicKeyCache]_vars
    /\ [][\A p \in Workers :
            (wh[p].pc = "fetch" /\ wh'[p].pc # "fetch" /\ wh'[p].key = NoKey)
                => publicKeyCache' = NoKey]_vars

C10_Witness ==
    /\ publicKeyCache = K1 /\ providerKey = K2 /\ keyCalls = 1
    /\ delivered = 3
    /\ wh[W1].pc = "done" /\ wh[W1].key = K1 /\ wh[W1].resp = "401"
    /\ GetSignature(wh[W1].ev.headers) = Signed(K2, wh[W1].ev.content)

\* the order id of the callback is a number, and the store is configured
NumericId(w) == w.ev.db /\ Truthy(w.ev.content.orderId) /\ IntParses(w.ev.content.orderId)
\* the committed orders the callback's order id names
Named(os, w) == {o \in os : o.wata_order_id = IntValue(w.ev.content.orderId)}

\* C11: a verified webhook whose (numeric) order id matches no order is
\* answered 404 right after the SELECT, and no row is created or updated.
C11_UnknownOrder404 ==
    [][\A p \in Workers :
          (wh[p].pc = "select" /\ wh'[p] # wh[p] /\ NumericId(wh[p])
           /\ Named(orders, wh[p]) = {})
              => /\ wh'[p].pc = "done"
                 /\ wh'[p].resp = "404"
                 /\ wh'[p].conn = "closed"
                 /\ orders' = orders
                 /\ items' = items]_vars

C11_Witness ==
    /\ wh[W1].pc = "done" /\ wh[W1].resp = "404" /\ wh[W1].verified = "true"
    /\ wh[W1].ev.content.orderId = UnknownId
    /\ wh[W1].dbid = 0
    /\ orders # {}

\* C12: a verified webhook for an existing order whose status, a string or
\* absent, is after lower-casing in neither set is answered 200 right after
\* the SELECT; the order's status, paid_at and updated_at stay as they were.
C12_UnrecognizedIsNoOp ==
    [][\A p \in Workers :
          (wh[p].pc = "select" /\ wh'[p] # wh[p] /\ NumericId(wh[p])
           /\ Named(orders, wh[p]) # {}
           /\ StatusOf(wh[p]) # AttributeError
           /\ StatusOf(wh[p]) \notin (SuccessStatuses \cup FailureStatuses))
              => /\ wh'[p].pc = "done"
                 /\ wh'[p].resp = "200"
                 /\ wh'[p].conn = "closed"
                 /\ orders' = orders]_vars

C12_Witness ==
    /\ wh[W1].pc = "done" /\ wh[W1].resp = "200"
    /\ wh[W1].ev.content.status = Null
    /\ wh[W1].cur = "failed"
    /\ \E o \in orders : o.id = wh[W1].dbid /\ o.status = "failed"
                         /\ o.updated_at < wh[W1].ts

ItemsOf(its, id) == {it \in its : it.order_id = id}

\* C13: an order row and the item rows of its cart become visible together:
\* every change of the committed store made by the intake adds one order row
\* and exactly the item rows of its cart, in one step, and no item row is
\* ever visible without its order.
C13_AtomicVisibility ==
    /\ [](\A it \in items : RowOf(orders, it.order_id) # {})
    /\ [][(orders' # orders \/ items' # items)
            => \E p \in Intakers :
                 /\ ik[p].pc = "provider"
                 /\ RowOf(orders, ik[p].order_id) = {}
                 /\ ItemsOf(items, ik[p].order_id) = {}
                 /\ RowOf(orders', ik[p].order_id) # {}
                 /\ orders' \ orders = RowOf(orders', ik[p].order_id)
                 /\ items' \ items = ItemRows(ik[p].order_id, ik[p].req.body.cart_items)
                 /\ orders \subseteq orders'
                 /\ items \subseteq items']_vars

C13_Witness ==
    \E p \in Intakers : \E q \in Intakers :
        /\ ik[p].pc = "done" /\ ik[p].resp = "200"
        /\ ik[p].req.body.cart_items = <<1, 2>>
        /\ Cardinality(ItemsOf(items, ik[p].order_id)) = 2
        /\ ik[q].pc = "done" /\ ik[q].link = "neterr"
        /\ ik[q].req.body.cart_items = <<1, 2>>
        /\ ItemsOf(items, ik[q].order_id) = {}

\* the request is a POST with credentials that the validation of lines 65-81
\* is meant to reject
FailsValidation(r) ==
    /\ Upper(r.method) = M_POST
    /\ r.token
    /\ IF r.body.json = "invalid" THEN TRUE
       ELSE IF ~AmountParses(r.body.amount) THEN TRUE
       ELSE \/ AmountLEZero(r.body.amount)
            \/ r.body.user_name \in {Missing, Str(<<>>)}
            \/ r.body.user_email \in {Missing, Str(<<>>)}

\* C14: every intake POST that fails validation (amount missing, non-numeric
\* or not above 0, name or email missing, body no JSON) is answered 400, with
\* no connection opened, no row written and no provider call made.
C14_Validation400 ==
    \A p \in Intakers :
        (ik[p].pc = "done" /\ FailsValidation(ik[p].req))
            => /\ ik[p].resp = "400"
               /\ ik[p].conn = "none"
               /\ ik[p].order_id = 0
               /\ ik[p].link = "none"

\* ORD-YYYYMMDD-<digits of wid>
HasOrderNumberForm(n, wid) ==
    /\ Len(n) > 13
    /\ SubSeq(n, 1, 4) = <<"O","R","D","-">>
    /\ IsDigits(SubSeq(n, 5, 12))
    /\ n[13] = "-"
    /\ IsDigits(SubSeq(n, 14, Len(n)))
    /\ IntOf(SubSeq(n, 14, Len(n))) = wid

\* C15: every intake POST answered 200 has added exactly one order row, which
\* is pending and stores the payment_url and wata_transaction_id of the
\* response, together with one item row per cart item; the order_number
\* returned is that row's and reads ORD-YYYYMMDD-<wata_order_id>.
C15_SuccessfulIntake ==
    /\ [](\A p \in Intakers :
            (ik[p].pc = "done" /\ ik[p].resp = "200"
             /\ Upper(ik[p].req.method) = M_POST)
                => /\ Cardinality(RowOf(orders, ik[p].body.order_id)) = 1
                   /\ \A o \in RowOf(orders, ik[p].body.order_id) :
                        /\ o.status = "pending"
                        /\ o.payment_url = ik[p].body.payment_url
                        /\ o.payment_url # NoUrl
                        /\ o.wata_transaction_id = ik[p].body.wata_transaction_id
                        /\ o.order_number = ik[p].body.order_number
                        /\ HasOrderNumberForm(o.order_number, o.wata_order_id)
                   /\ Cardinality(ItemsOf(items, ik[p].body.order_id))
                        = Len(ik[p].req.body.cart_items)
                   /\ \A i \in DOMAIN ik[p].req.body.cart_items :
                        \E it \in ItemsOf(items, ik[p].body.order_id) :
                            it.pos = i /\ it.product_id = ik[p].req.body.cart_items[i])
    /\ [][\A p \in Intakers :
            (ik[p].pc = "provider" /\ ik'[p].pc = "done" /\ ik'[p].resp = "200")
                => Cardinality(orders') = Cardinality(orders) + 1]_vars

C15_Witness ==
    /\ Cardinality(orders) = 2
    /\ \E p \in Intakers :
         /\ ik[p].pc = "done" /\ ik[p].resp = "200"
         /\ ik[p].req.body.cart_items = <<1, 2>>
         /\ ik[p].body.order_id = 2
         /\ ik[p].body.payment_url = LinkUrl

\* C16: in both handlers an invocation that ended on an error path after a
\* store connection was acquired has closed that connection.
C16_ErrorPathsClose ==
    /\ \A p \in Workers :
         (wh[p].pc = "done" /\ wh[p].resp \in {"400", "401", "404", "raised"})
             => wh[p].conn # "open"
    /\ \A p \in Intakers :
         (ik[p].pc = "done" /\ ik[p].resp \in {"400", "405", "500", "raised"})
             => ik[p].conn # "open"

Fetching == {p \in Workers : wh[p].pc = "fetch"}

\* C17: with get_wata_public_key running in several invocations at once on
\* an empty cache, no invocation sends more than one GET /public-key, an
\* invocation whose fetch yields a value returns that value, which is what the
\* provider served, and stores it, a fetch that yields nothing leaves the cache
\* as it is, and the cache is empty or holds a served value: while the
\* provider's key is unchanged, nothing a single call could not have left.
C17_ConcurrentColdStart ==
    /\ [](keyCalls + Cardinality(Fetching) <= delivered)
    /\ [](/\ publicKeyCache = NoKey <=> keyLoads = 0
          /\ publicKeyCache \in {NoKey, K1, NotPem}
                \cup (IF providerKey = K2 THEN {K2} ELSE {}))
    /\ [][\A p \in Workers :
            (wh[p].pc = "fetch" /\ wh'[p] # wh[p])
                => /\ keyCalls' = keyCalls + 1
                   /\ wh'[p].pc # "fetch"
                   /\ wh'[p].key \in {NoKey, providerKey, NotPem}
                   /\ keyLoads' > keyLoads <=> wh'[p].key # NoKey
                   /\ wh'[p].key # NoKey => publicKeyCache' = wh'[p].key
                   /\ wh'[p].key = NoKey => publicKeyCache' = publicKeyCache]_vars

C17_Witness ==
    /\ delivered = 2
    /\ keyCalls = 2
    /\ keyLoads = 2
    /\ providerKey = K1
    /\ publicKeyCache = K1
    /\ \A p \in Workers : wh[p].pc # "fetch" /\ wh[p].key = K1 /\ wh[p].verified = "true"

\* the callback of invocation w passed verification and is success-classified
VerifiedSuccess(w) ==
    /\ w.verified = "true"
    /\ w.ev.content.json = "object"
    /\ NormalizeStatus(w.ev.content.status) \in SuccessStatuses

\* C18: failed is not terminal.  A verified success callback handled to its
\* end for an order it read as pending or failed leaves the order paid with
\* paid_at and updated_at equal to the time of that callback, and that
\* paid_at is later than any paid_at the order carried before (as after
\* success, failure, success).
C18_FailedIsNotTerminal ==
    /\ [](\A p \in Workers :
            (wh[p].pc = "done" /\ wh[p].resp = "200" /\ VerifiedSuccess(wh[p])
             /\ wh[p].cur \in {"pending", "failed"})
                => /\ RowOf(orders, wh[p].dbid) # {}
                   /\ \A o \in RowOf(orders, wh[p].dbid) :
                        /\ o.status = "paid"
                        /\ o.paid_at = wh[p].ts
                        /\ o.updated_at = wh[p].ts)
    /\ [][\A p \in Workers :
            (wh[p].pc = "apply" /\ wh'[p].pc = "done" /\ VerifiedSuccess(wh[p]))
                => \A o \in RowOf(orders, wh[p].dbid) :
                     \A n \in RowOf(orders', wh[p].dbid) :
                        n.status = "paid" /\ n.paid_at > o.paid_at]_vars

C18_Witness ==
    /\ delivered = 3
    /\ clock = 3
    /\ wh[W1].pc = "done" /\ wh[W1].resp = "200" /\ VerifiedSuccess(wh[W1])
    /\ wh[W1].cur = "failed"
    /\ wh[W1].ts = 3
    /\ \E o \in RowOf(orders, wh[W1].dbid) : o.status = "paid" /\ o.paid_at = 3

\* C19: in every state of the store reached by intake requests and verified
\* callbacks each order is pending, paid or failed and a paid order has a
\* paid_at; no step removes an order or clears a paid_at that was set, and an
\* order going from paid to failed keeps its paid_at.
C19_StoreInvariant ==
    /\ [](\A o \in orders :
            /\ o.status \in {"pending", "paid", "failed"}
            /\ o.status = "paid" => o.paid_at # 0)
    /\ [][\A o \in orders :
            /\ RowOf(orders', o.id) # {}
            /\ \A n \in RowOf(orders', o.id) :
                 /\ o.paid_at # 0 => n.paid_at # 0
                 /\ (o.status = "paid" /\ n.status = "failed")
                        => n.paid_at = o.paid_at]_vars

C19_Witness ==
    /\ intakes >= 1
    /\ wh[W1].pc = "done" /\ wh[W1].resp = "200" /\ wh[W1].cur = "paid"
    /\ StatusOf(wh[W1]) \in FailureStatuses
    /\ \E o \in RowOf(orders, wh[W1].dbid) :
         /\ o.status = "failed"
         /\ o.paid_at # 0
         /\ o.paid_at < o.updated_at
         /\ o.payment_url = LinkUrl

====
